---- MODULE Spec2Model ----
(***************************************************************************)
(* Model of the privacy-trading program (programs/privacy-trading) and of  *)
(* the confidential circuits it dispatches (encrypted-ixs).                *)
(*                                                                         *)
(* Unsigned integers wider than TLC's machine integers (u64, u128) are     *)
(* little-endian byte tuples of their exact width, so wrapping arithmetic, *)
(* XOR and to_le_bytes are computed as the code computes them.             *)
(***************************************************************************)
EXTENDS Integers, Sequences, FiniteSets, Bags, TLC

\* ------------------------------------------------------------------------
\* Bounds of the model
\* ------------------------------------------------------------------------
\* computations that may be outstanding at the cluster at one time
MaxPending == 2
\* add_order submissions the callers make in the interleaving specification
MaxSubmit == 2
\* add_order calls of a serialized run with varied amounts
MaxRun == 3
\* add_order calls per batch where several authorities, sides and signers act
MaxPartyOrders == 1
\* the longest list of proofs enumerated in full for batch_verify_proofs
\* add_order calls of a serialized run that folds orders of several amounts
MaxFold == 2
MaxListed == 2
\* orders a batch can still take where the near-capacity specification starts
MaxLeft == 2

\* ------------------------------------------------------------------------
\* Program constants
\* ------------------------------------------------------------------------
\* require!(batch.order_count < 32, ErrorCode::BatchFull)
MAX_ORDERS == 32
\* require!(public_inputs.len() >= 4, ErrorCode::InvalidProof)
MIN_PUBLIC_INPUTS == 4
\* require!(proof_data.len() >= 64, ErrorCode::InvalidProofData)
MIN_PROOF_LEN == 64
\* the multiplicative mixing constant of the placeholder digests
MIX == 31
\* zk-verifier: require!(proof_data.len() >= 64, ErrorCode::InvalidProofData)
ZK_MIN_PROOF_LEN == 64
\* zk-verifier: root_matches || proof_data.len() > 100
ZK_LONG_PROOF_LEN == 100
\* zk-verifier: merkle_root[..16] == expected_root[..16]
ZK_ROOT_PREFIX == 16
\* the most proofs batch_verify_proofs takes
ZK_MAX_BATCH == 32

\* ------------------------------------------------------------------------
\* Fixed-width unsigned integers as little-endian byte tuples
\* ------------------------------------------------------------------------
RECURSIVE ToLE(_, _)
\* n.to_le_bytes() truncated/padded to w bytes
ToLE(n, w) == IF w = 0 THEN <<>> ELSE <<n % 256>> \o ToLE(n \div 256, w - 1)

U64(n) == ToLE(n, 8)
U128(n) == ToLE(n, 16)

RECURSIVE XorNat(_, _)
XorNat(x, y) ==
    IF x = 0 THEN y
    ELSE IF y = 0 THEN x
    ELSE ((x + y) % 2) + 2 * XorNat(x \div 2, y \div 2)

\* a ^ b on equal-width values
XorBytes(a, b) == [i \in 1..Len(a) |-> XorNat(a[i], b[i])]

RECURSIVE AddCarry(_, _, _, _)
AddCarry(a, b, i, c) ==
    IF i > Len(a) THEN <<>>
    ELSE LET s == a[i] + b[i] + c
         IN  <<s % 256>> \o AddCarry(a, b, i + 1, s \div 256)

\* a + b leaves the width of a and b
Overflows(a, b) == AddCarry(a \o <<0>>, b \o <<0>>, 1, 0)[Len(a) + 1] # 0

\* a.wrapping_add(b) on equal-width values (the carry out of the top byte is dropped)
WrappingAdd(a, b) == AddCarry(a, b, 1, 0)

RECURSIVE MulCarry(_, _, _, _)
MulCarry(a, k, i, c) ==
    IF i > Len(a) THEN <<>>
    ELSE LET s == a[i] * k + c
         IN  <<s % 256>> \o MulCarry(a, k, i + 1, s \div 256)

\* a.wrapping_mul(k) for a small constant k
WrappingMul(a, k) == MulCarry(a, k, 1, 0)

\* `amount as u128`: zero extension of a u64
AsU128(a) == a \o ToLE(0, 8)

\* u8 arithmetic of the circuit's order counter
U8Add(x, y) == (x + y) % 256

\* ------------------------------------------------------------------------
\* encrypted-ixs: BatchState and the circuits
\* ------------------------------------------------------------------------
\* BatchState as init_batch builds it
InitialBatchState ==
    [ total_amount       |-> U64(0),
      order_count        |-> 0,
      commitment_root    |-> U128(0),
      commitment_root_hi |-> U128(0),
      order_hash_1       |-> U128(0),
      order_hash_2       |-> U128(0),
      order_hash_3       |-> U128(0),
      order_hash_4       |-> U128(0) ]

\* Enc<Account, BatchState>: the ciphertext blocks are determined by the
\* plaintext and the nonce they were encrypted under (the key is the
\* cluster's and never changes).
Encrypt(state, nonce) == [pt |-> state, nonce |-> nonce]

\* [[0u8; 32]; 8], the encrypted_state create_batch writes: no encryption of
\* a BatchState under any nonce a caller can name.
NoNonce == 0 - 1
ZeroCiphertexts == [pt |-> InitialBatchState, nonce |-> NoNonce]

\* current_state.decrypt(state_nonce): the cipher is unauthenticated, so a
\* nonce other than the one the blocks were encrypted under yields some
\* unrelated plaintext `garbage`, not a failure.
Decrypt(ct, state_nonce, garbage) ==
    IF ct.nonce = state_nonce THEN ct.pt ELSE garbage

\* what a decryption under the wrong nonce may yield
GarbageState ==
    [ total_amount       |-> U64(57005),
      order_count        |-> 190,
      commitment_root    |-> U128(48879),
      commitment_root_hi |-> U128(51966),
      order_hash_1       |-> U128(1),
      order_hash_2       |-> U128(2),
      order_hash_3       |-> U128(3),
      order_hash_4       |-> U128(4) ]
Garbage == {GarbageState}

compute_order_hash(amount, wallet_lo, wallet_hi) ==
    LET h1 == WrappingAdd(U128(0), AsU128(amount))
        h2 == WrappingMul(h1, MIX)
        h3 == XorBytes(h2, wallet_lo)
        h4 == WrappingMul(h3, MIX)
    IN  XorBytes(h4, wallet_hi)

\* update_merkle_root that multiplies the high half before it adds the leaf
update_merkle_root_chained(current_lo, current_hi, new_leaf) ==
    [ lo |-> XorBytes(current_lo, new_leaf),
      hi |-> WrappingAdd(WrappingMul(current_hi, MIX), new_leaf) ]

update_merkle_root(current_lo, current_hi, new_leaf) ==
    [lo |-> XorBytes(current_lo, new_leaf), hi |-> WrappingAdd(current_hi, new_leaf)]

\* hash_execution_params that leaves the price out
hash_execution_params_no_price(total_shares, price, total_usdc) ==
    LET h1 == WrappingAdd(U64(0), total_shares)
        h2 == WrappingMul(h1, MIX)
        h4 == WrappingMul(h2, MIX)
    IN  WrappingAdd(h4, total_usdc)

hash_execution_params(total_shares, price, total_usdc) ==
    LET h1 == WrappingAdd(U64(0), total_shares)
        h2 == WrappingMul(h1, MIX)
        h3 == WrappingAdd(h2, price)
        h4 == WrappingMul(h3, MIX)
    IN  WrappingAdd(h4, total_usdc)

\* circuits::init_batch
circuits_init_batch(nonce_input) ==
    [ciphertexts |-> Encrypt(InitialBatchState, nonce_input), nonce |-> nonce_input]

\* circuits::add_order choosing the slot by the count before the increment
circuits_add_order_state_slot_before(state, amount, wallet_lo, wallet_hi) ==
    LET count      == U8Add(state.order_count, 1)
        order_hash == compute_order_hash(amount, wallet_lo, wallet_hi)
        root       == update_merkle_root(state.commitment_root,
                                         state.commitment_root_hi, order_hash)
    IN  [ total_amount       |-> WrappingAdd(state.total_amount, amount),
          order_count        |-> count,
          commitment_root    |-> root.lo,
          commitment_root_hi |-> root.hi,
          order_hash_1 |-> IF state.order_count = 1 THEN order_hash ELSE state.order_hash_1,
          order_hash_2 |-> IF state.order_count = 2 THEN order_hash ELSE state.order_hash_2,
          order_hash_3 |-> IF state.order_count = 3 THEN order_hash ELSE state.order_hash_3,
          order_hash_4 |-> IF state.order_count = 4 THEN order_hash ELSE state.order_hash_4 ]

\* the plaintext part of circuits::add_order: the state after the order
circuits_add_order_state(state, amount, wallet_lo, wallet_hi) ==
    LET count      == U8Add(state.order_count, 1)
        order_hash == compute_order_hash(amount, wallet_lo, wallet_hi)
        root       == update_merkle_root(state.commitment_root,
                                         state.commitment_root_hi, order_hash)
    IN  [ total_amount       |-> WrappingAdd(state.total_amount, amount),
          order_count        |-> count,
          commitment_root    |-> root.lo,
          commitment_root_hi |-> root.hi,
          order_hash_1 |-> IF count = 1 THEN order_hash ELSE state.order_hash_1,
          order_hash_2 |-> IF count = 2 THEN order_hash ELSE state.order_hash_2,
          order_hash_3 |-> IF count = 3 THEN order_hash ELSE state.order_hash_3,
          order_hash_4 |-> IF count = 4 THEN order_hash ELSE state.order_hash_4 ]

\* circuits::add_order adds with the plain `+` (total_amount + amount,
\* order_count + 1), which wraps in a build without overflow checks and
\* faults in a build with them: whether this run leaves the integer range
circuits_add_order_overflows(amount, state_nonce, current_state, garbage) ==
    LET state == Decrypt(current_state, state_nonce, garbage)
    IN  Overflows(state.total_amount, amount) \/ state.order_count + 1 > 255

\* circuits::add_order; new_nonce is the draw of ArcisRNG::u128()
circuits_add_order(amount, wallet_lo, wallet_hi, state_nonce, current_state, garbage, new_nonce) ==
    LET state == Decrypt(current_state, state_nonce, garbage)
        next  == circuits_add_order_state(state, amount, wallet_lo, wallet_hi)
    IN  [ciphertexts |-> Encrypt(next, new_nonce), nonce |-> new_nonce]

\* the 32-byte root execute_batch builds from a decrypted state
final_root(state, total_shares, execution_price) ==
    LET packed    == state.commitment_root \o state.commitment_root_hi
        exec_hash == hash_execution_params(total_shares, execution_price,
                                           state.total_amount)
    IN  [i \in 1..32 |-> IF i <= 8 THEN XorNat(packed[i], exec_hash[i])
                         ELSE packed[i]]

\* circuits::execute_batch
circuits_execute_batch(total_shares, execution_price, state_nonce, current_state, garbage) ==
    LET state == Decrypt(current_state, state_nonce, garbage)
    IN  [ merkle_root |-> final_root(state, total_shares, execution_price),
          total_usdc  |-> state.total_amount ]

\* ------------------------------------------------------------------------
\* privacy-trading: inputs the callers and the cluster choose
\* ------------------------------------------------------------------------
\* the draws of ArcisRNG::u128(): they may repeat a nonce or not
Nonces == {0, 1}
Markets == {"M1"}
Sides == {"Yes"}
\* signers that create batches, and all signers
Authorities == {"authority"}
Users == {"user"}
Signers == Authorities \cup Users
\* create_batch's nonce argument
CreateNonces == {0}
\* order amounts and wallet halves (plaintexts of the Enc<Shared, _> inputs)
Amounts == {U64(100)}
Wallets == {[lo |-> U128(7), hi |-> U128(9)]}
CommitmentHashes == {ToLE(171, 32)}
\* execute_batch parameters
TotalShares == {U64(350)}
ExecutionPrices == {U64(1)}
ZeroRoot == ToLE(0, 32)
\* a root no execution of the model produces
OtherRoot == ToLE(65535, 32)

\* u64::MAX
Max64 == [i \in 1..8 |-> 255]
\* the commitment a caller submits binds the order's amount; the callers of a
\* serialized run use the amount itself, padded to 32 bytes
Commitment(amount) == amount \o ToLE(0, 24)
\* add_order calls of a serialized run: signer, amount and commitment
RunOrders ==
    { [user |-> "user", amount |-> a, commitment_hash |-> Commitment(a)] :
        a \in {U64(100), U64(200), U64(50), Max64} }
\* several authorities, both sides, and add_order calls signed by a batch's
\* authority or by another signer
TwoAuthorities == {"authority", "other"}
TwoSides == {"Yes", "No"}
AnyOrders ==
    { [user |-> u, amount |-> U64(100), commitment_hash |-> Commitment(U64(100))] :
        u \in {"authority", "user"} }
\* execute_batch parameters of a serialized run
RunShares == {U64(350), Max64}
RunPrices == {Max64}

VARIABLES
    batches,    \* TradingBatch accounts, by PDA seeds <<market_id, authority>>
    orders,     \* OrderCommitment accounts, by PDA seeds <<batch key, index>>
    pending,    \* the bag of computations outstanding at the cluster (their
                \* computation_offset is a caller-chosen name no handler reads)
    last,       \* the instruction executed last: its name, accounts, signer,
                \* result and, for a callback, the computation it closes
    accepted,   \* per batch, the number of add_order callbacks applied
    registries, \* zk-verifier: ProofRegistry accounts, by PDA seeds market_id
    proof_records, \* zk-verifier: ProofRecord accounts, by PDA seeds proof_id
    batch_records, \* zk-verifier: BatchRecord accounts, by PDA seeds batch_id
    return_data \* zk-verifier: the value the last instruction returned

vars == <<batches, orders, pending, last, accepted, registries, proof_records,
          batch_records, return_data>>

\* the accounts of each program
trading == <<batches, orders, pending, accepted>>
zk == <<registries, proof_records, batch_records, return_data>>

\* the return data of an instruction: none for Result<()>, a bool for
\* check_verification
NoReturn == [set |-> FALSE, value |-> FALSE]
Return(b) == [set |-> TRUE, value |-> b]

NoArgs ==
    [ amount |-> U64(0), wallet_lo |-> U128(0), wallet_hi |-> U128(0),
      state_nonce |-> NoNonce, total_shares |-> U64(0), execution_price |-> U64(0) ]

NoOutput ==
    [ ciphertexts |-> ZeroCiphertexts, nonce |-> NoNonce,
      merkle_root |-> ZeroRoot, total_usdc |-> U64(0) ]

NoComputation ==
    [ kind |-> "none", key |-> <<"", "">>, args |-> NoArgs,
      phase |-> "none", output |-> NoOutput, stale |-> FALSE ]

\* queue_computation: the computation account as the cluster sees it
Computation(kind, key, args) ==
    [ kind |-> kind, key |-> key, args |-> args,
      phase |-> "queued", output |-> NoOutput, stale |-> FALSE ]

Result(op, key, signer, err) ==
    [op |-> op, key |-> key, signer |-> signer, err |-> err, comp |-> NoComputation]

OrdersOf(key) == {k \in DOMAIN orders : k[1] = key}

\* ------------------------------------------------------------------------
\* privacy-trading: instruction handlers
\* ------------------------------------------------------------------------
create_batch(authority, market_id, side, nonce) ==
    [ authority       |-> authority,
      market_id       |-> market_id,
      side            |-> side,
      status          |-> "Open",
      order_count     |-> 0,
      total_usdc      |-> U64(0),
      state_nonce     |-> nonce,
      encrypted_state |-> ZeroCiphertexts,
      merkle_root     |-> ZeroRoot ]

init_batch_callback(batch, verified, o) ==
    IF ~verified THEN [err |-> "AbortedComputation", batch |-> batch]
    ELSE [ err   |-> "Ok",
           batch |-> [batch EXCEPT !.encrypted_state = o.ciphertexts,
                                   !.state_nonce = o.nonce] ]

\* add_order with every commitment given index 0
add_order_index_zero(batch, user, amount, wallet, commitment_hash) ==
    IF batch.status # "Open" THEN [err |-> "BatchNotOpen"]
    ELSE IF ~(batch.order_count < MAX_ORDERS) THEN [err |-> "BatchFull"]
    ELSE [ err   |-> "Ok",
           order |-> [ user |-> user, commitment_hash |-> commitment_hash,
                       index |-> 0, allocated |-> FALSE ],
           args  |-> [NoArgs EXCEPT !.amount = amount,
                                    !.wallet_lo = wallet.lo,
                                    !.wallet_hi = wallet.hi,
                                    !.state_nonce = batch.state_nonce] ]

\* add_order with the capacity check off by one (<= for <)
add_order_off_by_one(batch, user, amount, wallet, commitment_hash) ==
    IF batch.status # "Open" THEN [err |-> "BatchNotOpen"]
    ELSE IF ~(batch.order_count <= MAX_ORDERS) THEN [err |-> "BatchFull"]
    ELSE [ err   |-> "Ok",
           order |-> [ user |-> user, commitment_hash |-> commitment_hash,
                       index |-> batch.order_count, allocated |-> FALSE ],
           args  |-> [NoArgs EXCEPT !.amount = amount,
                                    !.wallet_lo = wallet.lo,
                                    !.wallet_hi = wallet.hi,
                                    !.state_nonce = batch.state_nonce] ]

\* add_order with its two checks in the other order
add_order_full_first(batch, user, amount, wallet, commitment_hash) ==
    IF ~(batch.order_count < MAX_ORDERS) THEN [err |-> "BatchFull"]
    ELSE IF batch.status # "Open" THEN [err |-> "BatchNotOpen"]
    ELSE [ err   |-> "Ok",
           order |-> [ user |-> user, commitment_hash |-> commitment_hash,
                       index |-> batch.order_count, allocated |-> FALSE ],
           args  |-> [NoArgs EXCEPT !.amount = amount,
                                    !.wallet_lo = wallet.lo,
                                    !.wallet_hi = wallet.hi,
                                    !.state_nonce = batch.state_nonce] ]

\* the handler body of add_order: its checks, the OrderCommitment it fills
\* and the arguments it builds
\* add_order without the capacity check
add_order_unbounded(batch, user, amount, wallet, commitment_hash) ==
    IF batch.status # "Open" THEN [err |-> "BatchNotOpen"]
    ELSE [ err   |-> "Ok",
           order |-> [ user |-> user, commitment_hash |-> commitment_hash,
                       index |-> batch.order_count, allocated |-> FALSE ],
           args  |-> [NoArgs EXCEPT !.amount = amount,
                                    !.wallet_lo = wallet.lo,
                                    !.wallet_hi = wallet.hi,
                                    !.state_nonce = batch.state_nonce] ]

add_order(batch, user, amount, wallet, commitment_hash) ==
    IF batch.status # "Open" THEN [err |-> "BatchNotOpen"]
    ELSE IF ~(batch.order_count < MAX_ORDERS) THEN [err |-> "BatchFull"]
    ELSE [ err   |-> "Ok",
           order |-> [ user |-> user, commitment_hash |-> commitment_hash,
                       index |-> batch.order_count, allocated |-> FALSE ],
           args  |-> [NoArgs EXCEPT !.amount = amount,
                                    !.wallet_lo = wallet.lo,
                                    !.wallet_hi = wallet.hi,
                                    !.state_nonce = batch.state_nonce] ]

\* add_order_callback counting the order before it verifies the output
add_order_callback_counts_first(batch, verified, o) ==
    IF ~verified
    THEN [ err   |-> "AbortedComputation",
           batch |-> [batch EXCEPT !.order_count = U8Add(batch.order_count, 1)] ]
    ELSE [ err   |-> "Ok",
           batch |-> [batch EXCEPT !.encrypted_state = o.ciphertexts,
                                   !.state_nonce = o.nonce,
                                   !.order_count = U8Add(batch.order_count, 1)] ]

add_order_callback(batch, verified, o) ==
    IF ~verified THEN [err |-> "AbortedComputation", batch |-> batch]
    ELSE [ err   |-> "Ok",
           batch |-> [batch EXCEPT !.encrypted_state = o.ciphertexts,
                                   !.state_nonce = o.nonce,
                                   !.order_count = U8Add(batch.order_count, 1)] ]

\* close_batch without the EmptyBatch check
close_batch_accepts_empty(batch) ==
    IF batch.status # "Open" THEN [err |-> "BatchNotOpen", batch |-> batch]
    ELSE [err |-> "Ok", batch |-> [batch EXCEPT !.status = "Closed"]]

close_batch(batch) ==
    IF batch.status # "Open" THEN [err |-> "BatchNotOpen", batch |-> batch]
    ELSE IF ~(batch.order_count > 0) THEN [err |-> "EmptyBatch", batch |-> batch]
    ELSE [err |-> "Ok", batch |-> [batch EXCEPT !.status = "Closed"]]

\* execute_batch without the status check
execute_batch_any_status(batch, total_shares, execution_price) ==
    [ err  |-> "Ok",
      args |-> [NoArgs EXCEPT !.total_shares = total_shares,
                              !.execution_price = execution_price,
                              !.state_nonce = batch.state_nonce] ]

execute_batch(batch, total_shares, execution_price) ==
    IF batch.status # "Closed" THEN [err |-> "BatchNotClosed"]
    ELSE [ err  |-> "Ok",
           args |-> [NoArgs EXCEPT !.total_shares = total_shares,
                                   !.execution_price = execution_price,
                                   !.state_nonce = batch.state_nonce] ]

\* execute_batch_callback writing the ciphertext fields as the other two
\* callbacks do
execute_batch_callback_writes_state(batch, verified, o) ==
    IF ~verified THEN [err |-> "AbortedComputation", batch |-> batch]
    ELSE [ err   |-> "Ok",
           batch |-> [batch EXCEPT !.encrypted_state = o.ciphertexts,
                                   !.state_nonce = o.nonce,
                                   !.merkle_root = o.merkle_root,
                                   !.total_usdc = o.total_usdc,
                                   !.status = "Executed"] ]

\* execute_batch_callback that leaves the status as it is
execute_batch_callback_keeps_status(batch, verified, o) ==
    IF ~verified THEN [err |-> "AbortedComputation", batch |-> batch]
    ELSE [ err   |-> "Ok",
           batch |-> [batch EXCEPT !.merkle_root = o.merkle_root,
                                   !.total_usdc = o.total_usdc] ]

execute_batch_callback(batch, verified, o) ==
    IF ~verified THEN [err |-> "AbortedComputation", batch |-> batch]
    ELSE [ err   |-> "Ok",
           batch |-> [batch EXCEPT !.merkle_root = o.merkle_root,
                                   !.total_usdc = o.total_usdc,
                                   !.status = "Executed"] ]

\* verify_allocation comparing the first public input with the root
verify_allocation_first_input(batch, proof_len, public_inputs) ==
    IF batch.status # "Executed" THEN [err |-> "BatchNotExecuted", batch |-> batch]
    ELSE IF ~(Len(public_inputs) >= MIN_PUBLIC_INPUTS)
         THEN [err |-> "InvalidProof", batch |-> batch]
    ELSE IF public_inputs[1] # batch.merkle_root
         THEN [err |-> "MerkleRootMismatch", batch |-> batch]
    ELSE IF ~(proof_len >= MIN_PROOF_LEN)
         THEN [err |-> "InvalidProofData", batch |-> batch]
    ELSE [err |-> "Ok", batch |-> [batch EXCEPT !.status = "Verified"]]

\* verify_allocation checking the length of the proof before the root
verify_allocation_length_first(batch, proof_len, public_inputs) ==
    IF batch.status # "Executed" THEN [err |-> "BatchNotExecuted", batch |-> batch]
    ELSE IF ~(Len(public_inputs) >= MIN_PUBLIC_INPUTS)
         THEN [err |-> "InvalidProof", batch |-> batch]
    ELSE IF ~(proof_len >= MIN_PROOF_LEN)
         THEN [err |-> "InvalidProofData", batch |-> batch]
    ELSE IF public_inputs[2] # batch.merkle_root
         THEN [err |-> "MerkleRootMismatch", batch |-> batch]
    ELSE [err |-> "Ok", batch |-> [batch EXCEPT !.status = "Verified"]]

verify_allocation(batch, proof_len, public_inputs) ==
    IF batch.status # "Executed" THEN [err |-> "BatchNotExecuted", batch |-> batch]
    ELSE IF ~(Len(public_inputs) >= MIN_PUBLIC_INPUTS)
         THEN [err |-> "InvalidProof", batch |-> batch]
    ELSE IF public_inputs[2] # batch.merkle_root
         THEN [err |-> "MerkleRootMismatch", batch |-> batch]
    ELSE IF ~(proof_len >= MIN_PROOF_LEN)
         THEN [err |-> "InvalidProofData", batch |-> batch]
    ELSE [err |-> "Ok", batch |-> [batch EXCEPT !.status = "Verified"]]

\* ------------------------------------------------------------------------
\* privacy-trading: instructions (account validation, handler, dispatch)
\* ------------------------------------------------------------------------
Init ==
    /\ batches = <<>>
    /\ orders = <<>>
    /\ pending = EmptyBag
    /\ last = Result("none", <<"", "">>, "", "Ok")
    /\ accepted = <<>>
    /\ registries = <<>>
    /\ proof_records = <<>>
    /\ batch_records = <<>>
    /\ return_data = NoReturn

\* queue_computation is reached with room for one more computation
Room(maxPending) == BagCardinality(pending) < maxPending

Queue(c) == pending (+) SetToBag({c})

\* CreateBatch with the batch account found by market_id alone
CreateBatchByMarket(authority, market_id, side, nonce, maxPending) ==
    LET key == <<market_id, authority>> IN
    IF \E k \in DOMAIN batches : k[1] = market_id
    THEN /\ last' = Result("create_batch", key, authority, "AccountAlreadyInUse")
         /\ UNCHANGED <<batches, orders, pending, accepted, zk>>
    ELSE /\ Room(maxPending)
         /\ batches' = batches @@ (key :> create_batch(authority, market_id, side, nonce))
         /\ accepted' = accepted @@ (key :> 0)
         /\ pending' = Queue(Computation("init_batch", key,
                                         [NoArgs EXCEPT !.state_nonce = nonce]))
         /\ last' = Result("create_batch", key, authority, "Ok")
         /\ UNCHANGED <<orders, zk>>

\* CreateBatch accounts (batch: init at seeds [market_id, authority]) and
\* create_batch
CreateBatch(authority, market_id, side, nonce, maxPending) ==
    LET key == <<market_id, authority>> IN
    IF key \in DOMAIN batches
    THEN /\ last' = Result("create_batch", key, authority, "AccountAlreadyInUse")
         /\ UNCHANGED <<batches, orders, pending, accepted, zk>>
    ELSE /\ Room(maxPending)
         /\ batches' = batches @@ (key :> create_batch(authority, market_id, side, nonce))
         /\ accepted' = accepted @@ (key :> 0)
         /\ pending' = Queue(Computation("init_batch", key,
                                         [NoArgs EXCEPT !.state_nonce = nonce]))
         /\ last' = Result("create_batch", key, authority, "Ok")
         /\ UNCHANGED <<orders, zk>>

\* AddOrder with the order account at seeds [order, batch, number of the
\* batch's OrderCommitments] instead of [order, batch, order_count]
AddOrderNextFree(user, key, amount, wallet, commitment_hash, maxSubmit, maxPending) ==
    /\ key \in DOMAIN batches
    /\ LET batch == batches[key]
           seeds == <<key, Cardinality(OrdersOf(key))>>
           r     == add_order(batch, user, amount, wallet, commitment_hash)
       IN  IF r.err # "Ok"
           THEN /\ last' = Result("add_order", key, user, r.err)
                /\ UNCHANGED <<batches, orders, pending, accepted, zk>>
           ELSE /\ Room(maxPending)
                /\ Cardinality(OrdersOf(key)) < maxSubmit
                /\ orders' = orders @@ (seeds :> r.order)
                /\ pending' = Queue(Computation("add_order", key, r.args))
                /\ last' = Result("add_order", key, user, "Ok")
                /\ UNCHANGED <<batches, accepted, zk>>

\* AddOrder accounts (order: init at seeds [batch, batch.order_count]) and
\* add_order; the callers make at most maxSubmit submissions that are accepted
AddOrder(user, key, amount, wallet, commitment_hash, maxSubmit, maxPending) ==
    /\ key \in DOMAIN batches
    /\ LET batch == batches[key]
           seeds == <<key, batch.order_count>>
           r     == add_order(batch, user, amount, wallet, commitment_hash)
       IN  IF seeds \in DOMAIN orders
           THEN /\ last' = Result("add_order", key, user, "AccountAlreadyInUse")
                /\ UNCHANGED <<batches, orders, pending, accepted, zk>>
           ELSE IF r.err # "Ok"
           THEN /\ last' = Result("add_order", key, user, r.err)
                /\ UNCHANGED <<batches, orders, pending, accepted, zk>>
           ELSE /\ Room(maxPending)
                /\ Cardinality(OrdersOf(key)) < maxSubmit
                /\ orders' = orders @@ (seeds :> r.order)
                /\ pending' = Queue(Computation("add_order", key, r.args))
                /\ last' = Result("add_order", key, user, "Ok")
                /\ UNCHANGED <<batches, accepted, zk>>

\* CloseBatch without has_one = authority
CloseBatchAnySigner(signer, key) ==
    /\ key \in DOMAIN batches
    /\ LET r == close_batch(batches[key])
       IN  /\ last' = Result("close_batch", key, signer, r.err)
           /\ batches' = [batches EXCEPT ![key] = r.batch]
           /\ UNCHANGED <<orders, pending, accepted, zk>>

\* CloseBatch accounts (has_one = authority) and close_batch
CloseBatch(signer, key) ==
    /\ key \in DOMAIN batches
    /\ LET batch == batches[key]
           r     == close_batch(batch)
       IN  IF batch.authority # signer
           THEN /\ last' = Result("close_batch", key, signer, "Unauthorized")
                /\ UNCHANGED <<batches, orders, pending, accepted, zk>>
           ELSE /\ last' = Result("close_batch", key, signer, r.err)
                /\ batches' = [batches EXCEPT ![key] = r.batch]
                /\ UNCHANGED <<orders, pending, accepted, zk>>

\* ExecuteBatch accounts (has_one = authority) and execute_batch
ExecuteBatch(signer, key, total_shares, execution_price, maxPending) ==
    /\ key \in DOMAIN batches
    /\ LET batch == batches[key]
           r     == execute_batch(batch, total_shares, execution_price)
       IN  IF batch.authority # signer
           THEN /\ last' = Result("execute_batch", key, signer, "Unauthorized")
                /\ UNCHANGED <<batches, orders, pending, accepted, zk>>
           ELSE IF r.err # "Ok"
           THEN /\ last' = Result("execute_batch", key, signer, r.err)
                /\ UNCHANGED <<batches, orders, pending, accepted, zk>>
           ELSE /\ Room(maxPending)
                /\ pending' = Queue(Computation("execute_batch", key, r.args))
                /\ last' = Result("execute_batch", key, signer, "Ok")
                /\ UNCHANGED <<batches, orders, accepted, zk>>

\* VerifyAllocation accounts (has_one = authority) and verify_allocation;
\* of proof_data the handler reads the length alone
VerifyAllocation(signer, key, proof_len, public_inputs) ==
    /\ key \in DOMAIN batches
    /\ LET batch == batches[key]
           r     == verify_allocation(batch, proof_len, public_inputs)
       IN  IF batch.authority # signer
           THEN /\ last' = Result("verify_allocation", key, signer, "Unauthorized")
                /\ UNCHANGED <<batches, orders, pending, accepted, zk>>
           ELSE /\ last' = Result("verify_allocation", key, signer, r.err)
                /\ batches' = [batches EXCEPT ![key] = r.batch]
                /\ UNCHANGED <<orders, pending, accepted, zk>>

\* ------------------------------------------------------------------------
\* The cluster: it runs a queued computation on the account bytes it reads
\* at that moment and on the arguments fixed at submission
\* ------------------------------------------------------------------------
CircuitOutput(c, encrypted_state, garbage, new_nonce) ==
    IF c.kind = "init_batch"
    THEN LET o == circuits_init_batch(c.args.state_nonce)
         IN  [NoOutput EXCEPT !.ciphertexts = o.ciphertexts, !.nonce = o.nonce]
    ELSE IF c.kind = "add_order"
    THEN LET o == circuits_add_order(c.args.amount, c.args.wallet_lo, c.args.wallet_hi,
                                     c.args.state_nonce, encrypted_state,
                                     garbage, new_nonce)
         IN  [NoOutput EXCEPT !.ciphertexts = o.ciphertexts, !.nonce = o.nonce]
    ELSE LET o == circuits_execute_batch(c.args.total_shares, c.args.execution_price,
                                         c.args.state_nonce, encrypted_state, garbage)
         IN  [NoOutput EXCEPT !.merkle_root = o.merkle_root, !.total_usdc = o.total_usdc]

\* whether the build traps integer overflow of the plain operators
OverflowChecks == BOOLEAN

\* the computation c faults when the cluster runs it on encrypted_state
Faults(c, encrypted_state, garbage, checks) ==
    /\ checks
    /\ c.kind = "add_order"
    /\ circuits_add_order_overflows(c.args.amount, c.args.state_nonce,
                                    encrypted_state, garbage)

Compute(c, garbage, new_nonce) ==
    /\ BagIn(c, pending)
    /\ c.phase = "queued"
    /\ \E checks \in OverflowChecks :
          LET batch == batches[c.key]
              stale == c.kind # "init_batch" /\ c.args.state_nonce # batch.state_nonce
              done  == IF Faults(c, batch.encrypted_state, garbage, checks)
                       THEN [c EXCEPT !.phase = "faulted", !.stale = stale]
                       ELSE [c EXCEPT !.phase  = "executed",
                                      !.output = CircuitOutput(c, batch.encrypted_state,
                                                               garbage, new_nonce),
                                      !.stale  = stale]
          IN  /\ pending' = (pending (-) SetToBag({c})) (+) SetToBag({done})
              /\ last' = [Result("cluster_compute", c.key, "arcium", "Ok") EXCEPT
                             !.comp = done]
    /\ UNCHANGED <<batches, orders, accepted, zk>>

\* ------------------------------------------------------------------------
\* privacy-trading: callbacks.  `verified` is the outcome of verify_output;
\* it can be Ok only for a computation the cluster has run.
\* ------------------------------------------------------------------------
CallbackResult(c, batch, verified) ==
    IF c.kind = "init_batch" THEN init_batch_callback(batch, verified, c.output)
    ELSE IF c.kind = "add_order" THEN add_order_callback(batch, verified, c.output)
    ELSE execute_batch_callback(batch, verified, c.output)

\* the effect of invoking the callback of computation c on its batch; `how`
\* tells the delivery from a repeated one
Invoke(c, verified, how) ==
    LET r == CallbackResult(c, batches[c.key], verified) IN
    /\ batches' = [batches EXCEPT ![c.key] = r.batch]
    /\ accepted' = IF c.kind = "add_order" /\ r.err = "Ok"
                   THEN [accepted EXCEPT ![c.key] = @ + 1]
                   ELSE accepted
    /\ last' = [Result(c.kind \o "_callback", c.key, "arcium", r.err) EXCEPT
                   !.comp = [c EXCEPT !.phase = how]]

Callback(kind, c, verified) ==
    /\ BagIn(c, pending)
    /\ c.kind = kind
    /\ verified => c.phase = "executed"
    /\ Invoke(c, verified, IF verified THEN "verified" ELSE "aborted")
    /\ pending' = pending (-) SetToBag({c})
    /\ UNCHANGED <<orders, zk>>

InitBatchCallback(c, verified) == Callback("init_batch", c, verified)
AddOrderCallback(c, verified) == Callback("add_order", c, verified)
ExecuteBatchCallback(c, verified) == Callback("execute_batch", c, verified)

\* a second invocation of the callback delivered last, with the same signed
\* output (one repetition per delivery)
Redeliver ==
    /\ last.comp.phase = "verified"
    /\ Invoke(last.comp, TRUE, "redelivered")
    /\ UNCHANGED <<orders, pending, zk>>

\* ------------------------------------------------------------------------
\* Specifications
\* ------------------------------------------------------------------------
PublicInputs(key) ==
    { [i \in 1..n |-> IF i = 2 THEN root ELSE ZeroRoot] :
        n \in {MIN_PUBLIC_INPUTS - 1, MIN_PUBLIC_INPUTS},
        root \in {batches[key].merkle_root, OtherRoot} }

Step(maxSubmit, maxPending) ==
    \/ \E a \in Authorities, m \in Markets, s \in Sides, n \in CreateNonces :
          CreateBatch(a, m, s, n, maxPending)
    \/ \E u \in Users, k \in DOMAIN batches, a \in Amounts, w \in Wallets,
          h \in CommitmentHashes :
          AddOrder(u, k, a, w, h, maxSubmit, maxPending)
    \/ \E s \in Signers, k \in DOMAIN batches : CloseBatch(s, k)
    \/ \E s \in Signers, k \in DOMAIN batches, t \in TotalShares,
          p \in ExecutionPrices :
          ExecuteBatch(s, k, t, p, maxPending)
    \/ \E s \in Signers, k \in DOMAIN batches,
          l \in {MIN_PROOF_LEN - 1, MIN_PROOF_LEN} :
          \E pi \in PublicInputs(k) : VerifyAllocation(s, k, l, pi)
    \/ \E c \in BagToSet(pending), g \in Garbage, n \in Nonces : Compute(c, g, n)
    \/ \E c \in BagToSet(pending), v \in BOOLEAN : InitBatchCallback(c, v)
    \/ \E c \in BagToSet(pending), v \in BOOLEAN : AddOrderCallback(c, v)
    \/ \E c \in BagToSet(pending), v \in BOOLEAN : ExecuteBatchCallback(c, v)

\* any interleaving of submissions, cluster steps and callbacks, with at most
\* MaxSubmit orders per batch and MaxPending outstanding computations
Next == Step(MaxSubmit, MaxPending)
Spec == Init /\ [][Next]_vars

\* callers that serialize: a computation is submitted only when none is
\* outstanding; the only cap on orders is the program's
NextSerial == Step(MAX_ORDERS + 1, 1)
SpecSerial == Init /\ [][NextSerial]_vars

\* as Spec, with callbacks that may be delivered twice
NextDup == Next \/ Redeliver
SpecDup == Init /\ [][NextDup]_vars

\* the outcomes of verify_output for computation c: a computation that
\* faulted has no output to verify
Verdicts(c, verdicts) == IF c.phase = "faulted" THEN {FALSE} ELSE verdicts

\* the instructions, the cluster step and the callbacks, with the callers'
\* inputs and the outcomes of verify_output drawn from the given sets; `keys`
\* are the batches the callers trade on once they exist
StepOf(authorities, sides, keys, submissions, shares, prices, verdicts, maxSubmit, maxPending) ==
    \/ \E a \in authorities, m \in Markets, s \in sides, n \in CreateNonces :
          CreateBatch(a, m, s, n, maxPending)
    \/ \E o \in submissions, k \in DOMAIN batches \cap keys, w \in Wallets :
          AddOrder(o.user, k, o.amount, w, o.commitment_hash, maxSubmit, maxPending)
    \/ \E s \in authorities \cup Users, k \in DOMAIN batches \cap keys : CloseBatch(s, k)
    \/ \E s \in authorities \cup Users, k \in DOMAIN batches \cap keys :
          \E t \in shares, p \in prices : ExecuteBatch(s, k, t, p, maxPending)
    \/ \E s \in authorities \cup Users, k \in DOMAIN batches \cap keys,
          l \in {MIN_PROOF_LEN - 1, MIN_PROOF_LEN} :
          \E pi \in PublicInputs(k) : VerifyAllocation(s, k, l, pi)
    \/ \E c \in BagToSet(pending), g \in Garbage, n \in Nonces : Compute(c, g, n)
    \/ \E c \in BagToSet(pending) : \E v \in Verdicts(c, verdicts) : InitBatchCallback(c, v)
    \/ \E c \in BagToSet(pending) : \E v \in Verdicts(c, verdicts) : AddOrderCallback(c, v)
    \/ \E c \in BagToSet(pending) : \E v \in Verdicts(c, verdicts) : ExecuteBatchCallback(c, v)

\* the batches of the authority of the single-authority specifications
OwnKeys == Markets \X Authorities

\* a serialized run: one computation outstanding at a time, every output the
\* cluster produces is applied (verify_output succeeds), at most MaxRun
\* orders with amounts,
\* shares and prices that reach the ends of the u64 range
NextRun == StepOf(Authorities, Sides, OwnKeys, RunOrders, RunShares, RunPrices, {TRUE}, MaxRun, 1)
SpecRun == Init /\ [][NextRun]_vars

\* a serialized run of at most MaxFold orders of several amounts
NextFold == StepOf(Authorities, Sides, OwnKeys, RunOrders, TotalShares, ExecutionPrices, {TRUE}, MaxFold, 1)
SpecFold == Init /\ [][NextFold]_vars

\* any interleaving with MaxPending computations outstanding where the
\* authority submits execute_batch with differing total_shares, on a batch
\* of one order
ExecOrders ==
    { [user |-> u, amount |-> a, commitment_hash |-> Commitment(a)] :
        u \in Users, a \in Amounts }
NextExec == StepOf(Authorities, Sides, OwnKeys, ExecOrders, RunShares, RunPrices, {TRUE}, 1, MaxPending)
SpecExec == Init /\ [][NextExec]_vars

\* any interleaving with MaxPending computations outstanding and at most
\* MaxSubmit orders whose commitment_hash names their amount; every output
\* the cluster produces is applied
NextFlight == StepOf(Authorities, Sides, OwnKeys, ExecOrders, TotalShares, ExecutionPrices, {TRUE}, MaxSubmit, MaxPending)
SpecFlight == Init /\ [][NextFlight]_vars

\* serialized callers where two authorities create batches of either side
\* and the batch of one of them is traded on by three signers
NextParties == StepOf(TwoAuthorities, TwoSides, OwnKeys, AnyOrders, TotalShares, ExecutionPrices, BOOLEAN, MaxPartyOrders, 1)
SpecParties == Init /\ [][NextParties]_vars

\* a batch near its capacity: the accounts after create_batch, its callback
\* and n serialized add_order calls with their callbacks, computed with the
\* handlers and circuits above
NearKey == CHOOSE k \in OwnKeys : TRUE
NearOrder ==
    [ user            |-> CHOOSE u \in Users : TRUE,
      amount          |-> CHOOSE a \in Amounts : TRUE,
      wallet          |-> CHOOSE w \in Wallets : TRUE,
      commitment_hash |-> CHOOSE h \in CommitmentHashes : TRUE ]
NearNonce == CHOOSE n \in CreateNonces : TRUE

\* the computation add_order queues on `batch`, run by the cluster
NearComputation(batch) ==
    LET r == add_order(batch, NearOrder.user, NearOrder.amount, NearOrder.wallet,
                       NearOrder.commitment_hash)
        c == Computation("add_order", NearKey, r.args)
    IN  [c EXCEPT !.phase  = "executed",
                  !.output = CircuitOutput(c, batch.encrypted_state, GarbageState,
                                           NearNonce)]

\* the batch account create_batch and its callback leave
NearCreated ==
    LET batch == create_batch(NearKey[2], NearKey[1], CHOOSE s \in Sides : TRUE,
                              NearNonce)
        c == Computation("init_batch", NearKey,
                         [NoArgs EXCEPT !.state_nonce = NearNonce])
    IN  init_batch_callback(batch, TRUE,
            CircuitOutput(c, batch.encrypted_state, GarbageState, NearNonce)).batch

\* `batch` after n more add_order calls and their callbacks
RECURSIVE BatchFrom(_, _)
BatchFrom(batch, n) ==
    IF n = 0 THEN batch
    ELSE LET next == add_order_callback(batch, TRUE,
                                        NearComputation(batch).output).batch
         IN  IF next.status = batch.status THEN BatchFrom(next, n - 1) ELSE next

BatchAfter(n) == BatchFrom(NearCreated, n)

OrdersAfter(n) ==
    [ seeds \in {NearKey} \X (0 .. n - 1) |->
        add_order([NearCreated EXCEPT !.order_count = seeds[2]], NearOrder.user,
                  NearOrder.amount, NearOrder.wallet, NearOrder.commitment_hash).order ]

\* the state after the callback of add_order number MAX_ORDERS - MaxLeft
NearFull ==
    LET n == MAX_ORDERS - MaxLeft IN
    /\ batches = (NearKey :> BatchAfter(n))
    /\ orders = OrdersAfter(n)
    /\ pending = EmptyBag
    /\ last = [Result("add_order_callback", NearKey, "arcium", "Ok") EXCEPT
                  !.comp = [NearComputation(BatchAfter(n - 1)) EXCEPT
                               !.phase = "verified"]]
    /\ accepted = (NearKey :> n)
    /\ registries = <<>>
    /\ proof_records = <<>>
    /\ batch_records = <<>>
    /\ return_data = NoReturn

\* any interleaving of instructions, cluster steps and callbacks on the batch
\* near its capacity, with MaxPending outstanding computations (no init_batch
\* computation is outstanding and none can be queued: the batch exists)
NextNearFull ==
    \/ \E a \in Authorities, m \in Markets, s \in Sides, n \in CreateNonces :
          CreateBatch(a, m, s, n, MaxPending)
    \/ \E u \in Users, k \in DOMAIN batches, a \in Amounts, w \in Wallets,
          h \in CommitmentHashes :
          AddOrder(u, k, a, w, h, MAX_ORDERS + 1, MaxPending)
    \/ \E s \in Signers, k \in DOMAIN batches : CloseBatch(s, k)
    \/ \E s \in Signers, k \in DOMAIN batches, t \in TotalShares,
          p \in ExecutionPrices :
          ExecuteBatch(s, k, t, p, MaxPending)
    \/ \E s \in Signers, k \in DOMAIN batches,
          l \in {MIN_PROOF_LEN - 1, MIN_PROOF_LEN} :
          \E pi \in PublicInputs(k) : VerifyAllocation(s, k, l, pi)
    \/ \E c \in BagToSet(pending), g \in Garbage, n \in Nonces : Compute(c, g, n)
    \/ \E c \in BagToSet(pending), v \in BOOLEAN : AddOrderCallback(c, v)
    \/ \E c \in BagToSet(pending), v \in BOOLEAN : ExecuteBatchCallback(c, v)
SpecNearFull == NearFull /\ [][NextNearFull]_vars

\* ------------------------------------------------------------------------
\* zk-verifier: the proof registry program
\* ------------------------------------------------------------------------
ZkMarkets == {"M1", "M2"}
ZkSigners == {"authority", "other"}
ProofIds == {"p1", "p2"}
QueryCommitments == {ToLE(4660, 32)}
ResponseCommitments == {ToLE(22136, 32)}
Timestamps == {1}
\* proof_data by its length: too short, minimal, and long
ProofLens == {ZK_MIN_PROOF_LEN - 1, ZK_MIN_PROOF_LEN, ZK_LONG_PROOF_LEN + 1}

\* simple_hash of query_commitment ++ response_commitment: byte i of the 64
\* is XORed into result[i % 32]
simple_hash(query_commitment, response_commitment) ==
    XorBytes(query_commitment, response_commitment)

\* the merkle_root arguments: the digest of the commitments, and a root
\* whose first 16 bytes differ from it
ProofRoots ==
    { simple_hash(q, r) : q \in QueryCommitments, r \in ResponseCommitments }
    \cup {OtherRoot}

verify_ultrahonk_proof(query_commitment, response_commitment, merkle_root, proof_len) ==
    IF ~(proof_len >= ZK_MIN_PROOF_LEN) THEN [err |-> "InvalidProofData", valid |-> FALSE]
    ELSE LET expected_root == simple_hash(query_commitment, response_commitment)
             root_matches  == SubSeq(merkle_root, 1, ZK_ROOT_PREFIX)
                                  = SubSeq(expected_root, 1, ZK_ROOT_PREFIX)
         IN  [err |-> "Ok", valid |-> root_matches \/ proof_len > ZK_LONG_PROOF_LEN]

\* the ProofRegistry initialize_registry fills
initialize_registry(authority, market_id) ==
    [authority |-> authority, market_id |-> market_id, proof_count |-> 0]

\* InitializeRegistry accounts (registry: init at seeds [market_id]) and
\* initialize_registry
InitializeRegistry(authority, market_id) ==
    /\ IF market_id \in DOMAIN registries
       THEN /\ last' = Result("initialize_registry", <<market_id, authority>>,
                              authority, "AccountAlreadyInUse")
            /\ UNCHANGED registries
       ELSE /\ registries' = registries
                   @@ (market_id :> initialize_registry(authority, market_id))
            /\ last' = Result("initialize_registry", <<market_id, authority>>,
                              authority, "Ok")
    /\ return_data' = NoReturn
    /\ UNCHANGED <<proof_records, batch_records, trading>>

\* verify_proof without its require!(is_valid, InvalidProof)
verify_proof_unchecked(verifier, proof_id, query_commitment, response_commitment, merkle_root, timestamp, proof_len) ==
    LET v == verify_ultrahonk_proof(query_commitment, response_commitment,
                                    merkle_root, proof_len)
    IN  IF v.err # "Ok" THEN [err |-> v.err]
        ELSE [ err    |-> "Ok",
               record |-> [ proof_id            |-> proof_id,
                            query_commitment    |-> query_commitment,
                            response_commitment |-> response_commitment,
                            merkle_root         |-> merkle_root,
                            timestamp           |-> timestamp,
                            verified            |-> TRUE,
                            verifier            |-> verifier ] ]

\* the handler body of verify_proof: its checks and the ProofRecord it fills
\* (verified_at is the clock's reading, which no instruction reads)
verify_proof(verifier, proof_id, query_commitment, response_commitment, merkle_root, timestamp, proof_len) ==
    LET v == verify_ultrahonk_proof(query_commitment, response_commitment,
                                    merkle_root, proof_len)
    IN  IF v.err # "Ok" THEN [err |-> v.err]
        ELSE IF ~v.valid THEN [err |-> "InvalidProof"]
        ELSE [ err    |-> "Ok",
               record |-> [ proof_id            |-> proof_id,
                            query_commitment    |-> query_commitment,
                            response_commitment |-> response_commitment,
                            merkle_root         |-> merkle_root,
                            timestamp           |-> timestamp,
                            verified            |-> TRUE,
                            verifier            |-> verifier ] ]

\* VerifyProof accounts (registry: an existing ProofRegistry; proof_record:
\* init at seeds [proof_id]) and verify_proof
VerifyProof(verifier, market_id, proof_id, q, r, merkle_root, timestamp, proof_len) ==
    /\ market_id \in DOMAIN registries
    /\ LET key == <<market_id, registries[market_id].authority>>
           res == verify_proof(verifier, proof_id, q, r, merkle_root, timestamp, proof_len)
       IN  IF proof_id \in DOMAIN proof_records
           THEN /\ last' = Result("verify_proof", key, verifier, "AccountAlreadyInUse")
                /\ UNCHANGED <<registries, proof_records>>
           ELSE IF res.err # "Ok"
           THEN /\ last' = Result("verify_proof", key, verifier, res.err)
                /\ UNCHANGED <<registries, proof_records>>
           ELSE /\ proof_records' = proof_records @@ (proof_id :> res.record)
                /\ registries' = [registries EXCEPT ![market_id].proof_count = @ + 1]
                /\ last' = Result("verify_proof", key, verifier, "Ok")
    /\ return_data' = NoReturn
    /\ UNCHANGED <<batch_records, trading>>

\* the proofs of a batch: one that verifies, one whose root does not match,
\* and one whose proof_data is too short
GoodProof ==
    [ query_commitment |-> ToLE(4660, 32), response_commitment |-> ToLE(22136, 32),
      merkle_root |-> simple_hash(ToLE(4660, 32), ToLE(22136, 32)),
      proof_len |-> ZK_MIN_PROOF_LEN ]
BadProof == [GoodProof EXCEPT !.merkle_root = OtherRoot]
ShortProof == [GoodProof EXCEPT !.proof_len = ZK_MIN_PROOF_LEN - 1]
ProofInputs == {GoodProof, BadProof, ShortProof}

\* the lists of proofs submitted: every list of up to MaxListed proofs, and
\* lists at and above the size limit
ProofLists ==
    UNION { [1..n -> ProofInputs] : n \in 0..MaxListed }
    \cup { [i \in 1..ZK_MAX_BATCH |-> GoodProof],
           [i \in 1..ZK_MAX_BATCH + 1 |-> GoodProof],
           [i \in 1..ZK_MAX_BATCH + 1 |-> BadProof] }
BatchIds == {"b1", "b2"}
BatchSigners == {"authority"}
BatchRoots == {OtherRoot}

\* the loop of batch_verify_proofs from proof i on: it leaves at the first
\* proof verify_ultrahonk_proof returns an error for, and counts the valid
\* ones in a u8
RECURSIVE VerifyEach(_, _, _)
VerifyEach(proofs, i, verified_count) ==
    IF i > Len(proofs) THEN [err |-> "Ok", verified_count |-> verified_count]
    ELSE LET proof == proofs[i]
             v == verify_ultrahonk_proof(proof.query_commitment,
                      proof.response_commitment, proof.merkle_root, proof.proof_len)
         IN  IF v.err # "Ok" THEN [err |-> v.err, verified_count |-> verified_count]
             ELSE VerifyEach(proofs, i + 1,
                             IF v.valid THEN U8Add(verified_count, 1)
                                        ELSE verified_count)

\* batch_verify_proofs without its require!(verified_count == proofs.len())
batch_verify_proofs_uncounted(authority, batch_id, proofs, batch_merkle_root) ==
    IF ~(Len(proofs) <= ZK_MAX_BATCH) THEN [err |-> "BatchTooLarge"]
    ELSE IF Len(proofs) = 0 THEN [err |-> "EmptyBatch"]
    ELSE LET each == VerifyEach(proofs, 1, 0)
         IN  IF each.err # "Ok" THEN [err |-> each.err]
             ELSE [ err    |-> "Ok",
                    record |-> [ batch_id          |-> batch_id,
                                 proof_count       |-> Len(proofs) % 256,
                                 batch_merkle_root |-> batch_merkle_root,
                                 verified          |-> TRUE,
                                 authority         |-> authority ] ]

\* the handler body of batch_verify_proofs: its checks and the BatchRecord
\* it fills (verified_at is the clock's reading, which no instruction reads)
batch_verify_proofs(authority, batch_id, proofs, batch_merkle_root) ==
    IF ~(Len(proofs) <= ZK_MAX_BATCH) THEN [err |-> "BatchTooLarge"]
    ELSE IF Len(proofs) = 0 THEN [err |-> "EmptyBatch"]
    ELSE LET each == VerifyEach(proofs, 1, 0)
         IN  IF each.err # "Ok" THEN [err |-> each.err]
             ELSE IF ~(each.verified_count = Len(proofs) % 256)
                  THEN [err |-> "BatchVerificationFailed"]
             ELSE [ err    |-> "Ok",
                    record |-> [ batch_id          |-> batch_id,
                                 proof_count       |-> Len(proofs) % 256,
                                 batch_merkle_root |-> batch_merkle_root,
                                 verified          |-> TRUE,
                                 authority         |-> authority ] ]

\* BatchVerifyProofs accounts (batch_record: init at seeds [batch_id]) and
\* batch_verify_proofs
BatchVerifyProofs(authority, batch_id, proofs, batch_merkle_root) ==
    /\ LET key == <<batch_id, authority>>
           res == batch_verify_proofs(authority, batch_id, proofs, batch_merkle_root)
       IN  IF batch_id \in DOMAIN batch_records
           THEN /\ last' = Result("batch_verify_proofs", key, authority,
                                  "AccountAlreadyInUse")
                /\ UNCHANGED batch_records
           ELSE IF res.err # "Ok"
           THEN /\ last' = Result("batch_verify_proofs", key, authority, res.err)
                /\ UNCHANGED batch_records
           ELSE /\ batch_records' = batch_records @@ (batch_id :> res.record)
                /\ last' = Result("batch_verify_proofs", key, authority, "Ok")
    /\ return_data' = NoReturn
    /\ UNCHANGED <<registries, proof_records, trading>>

\* check_verification returning the opposite of the flag
check_verification_inverted(proof_record) == ~proof_record.verified

\* check_verification: the flag of the ProofRecord passed
check_verification(proof_record) == proof_record.verified

\* CheckVerification accounts (proof_record: an existing ProofRecord, no
\* signer) and check_verification
CheckVerification(proof_id) ==
    /\ IF proof_id \in DOMAIN proof_records
       THEN /\ return_data' = Return(check_verification(proof_records[proof_id]))
            /\ last' = Result("check_verification", <<proof_id, "">>, "", "Ok")
       ELSE /\ return_data' = NoReturn
            /\ last' = Result("check_verification", <<proof_id, "">>, "",
                              "AccountNotInitialized")
    /\ UNCHANGED <<registries, proof_records, batch_records, trading>>

NextZk ==
    \/ \E a \in ZkSigners, m \in ZkMarkets : InitializeRegistry(a, m)
    \/ \E v \in ZkSigners, m \in ZkMarkets, p \in ProofIds, q \in QueryCommitments,
          r \in ResponseCommitments, root \in ProofRoots, t \in Timestamps,
          l \in ProofLens :
          VerifyProof(v, m, p, q, r, root, t, l)

\* the zk-verifier program on its own: it shares no account with
\* privacy-trading
SpecZk == Init /\ [][NextZk]_vars

\* every instruction of zk-verifier, with one registry and one signer
RecordProofIds == {"p1"}
NextRecords ==
    \/ \E a \in BatchSigners, m \in Markets : InitializeRegistry(a, m)
    \/ \E v \in BatchSigners, m \in Markets, p \in RecordProofIds, q \in QueryCommitments,
          r \in ResponseCommitments, root \in ProofRoots, t \in Timestamps,
          l \in ProofLens :
          VerifyProof(v, m, p, q, r, root, t, l)
    \/ \E a \in BatchSigners, b \in BatchIds, proofs \in ProofLists,
          root \in BatchRoots :
          BatchVerifyProofs(a, b, proofs, root)
    \/ \E p \in RecordProofIds : CheckVerification(p)

SpecRecords == Init /\ [][NextRecords]_vars

\* ------------------------------------------------------------------------
\* Properties
\* ------------------------------------------------------------------------
CallbackOps == {"init_batch_callback", "add_order_callback", "execute_batch_callback"}

LifecycleSteps ==
    {<<"Open", "Closed">>, <<"Closed", "Executed">>, <<"Executed", "Verified">>}

\* C1: a batch's status changes only by Open->Closed, Closed->Executed and
\* Executed->Verified; it never moves backward and never skips a state.
C1_StatusOneWay ==
    [][\A k \in DOMAIN batches :
          batches'[k].status # batches[k].status
              => <<batches[k].status, batches'[k].status>> \in LifecycleSteps]_vars

\* C2: a callback whose output fails verification returns AbortedComputation
\* and leaves encrypted_state, state_nonce, status, order_count, merkle_root
\* and total_usdc of the batch as they were.
C2_AbortLeavesBatch ==
    [][(last'.op \in CallbackOps /\ last'.comp.phase = "aborted")
          => LET before == batches[last'.key]
                 after  == batches'[last'.key]
             IN  /\ last'.err = "AbortedComputation"
                 /\ after.encrypted_state = before.encrypted_state
                 /\ after.state_nonce = before.state_nonce
                 /\ after.status = before.status
                 /\ after.order_count = before.order_count
                 /\ after.merkle_root = before.merkle_root
                 /\ after.total_usdc = before.total_usdc]_vars

\* an add_order callback was aborted after the cluster had produced an output
C2_Witness ==
    /\ last.op = "add_order_callback"
    /\ last.err = "AbortedComputation"
    /\ last.comp.output.nonce # NoNonce

IndicesOf(k) == {orders[o].index : o \in OrdersOf(k)}

\* C3 as stated: after N accepted add_order callbacks order_count is N and
\* every OrderCommitment of the batch has a distinct index in [0, N).
C3_IndicesBelowCount ==
    \A k \in DOMAIN batches :
        /\ batches[k].order_count = accepted[k]
        /\ Cardinality(IndicesOf(k)) = Cardinality(OrdersOf(k))
        /\ IndicesOf(k) \subseteq 0..(accepted[k] - 1)

\* C3 amended: after N accepted add_order callbacks (N <= 32) order_count is
\* N and the OrderCommitments of the batch have distinct indices that are
\* exactly 0..N-1, or 0..N when an order was submitted whose callback has not
\* been accepted (pending or aborted).
C3_IndicesUpToCount ==
    \A k \in DOMAIN batches :
        /\ accepted[k] <= MAX_ORDERS
        /\ batches[k].order_count = accepted[k]
        /\ Cardinality(IndicesOf(k)) = Cardinality(OrdersOf(k))
        /\ IndicesOf(k) \in {0..(accepted[k] - 1), 0..accepted[k]}

\* 31 callbacks accepted and the 32nd order reserved ahead of its callback
C3_Witness ==
    \E k \in DOMAIN batches :
        /\ accepted[k] = MAX_ORDERS - 1
        /\ IndicesOf(k) = 0..(MAX_ORDERS - 1)

C5_StaleComputationFails ==
    (last.op \in {"add_order_callback", "execute_batch_callback"} /\ last.comp.stale)
        => last.err = "AbortedComputation"

\* C6: the state an accepted add_order's computation decrypts holds the
\* batch's public order_count.
C6_CountsAgree ==
    (last.op = "cluster_compute" /\ last.comp.kind = "add_order")
        => last.comp.output.ciphertexts.pt.order_count
               = U8Add(batches[last.key].order_count, 1)

\* C7: once a batch exists, encrypted_state and state_nonce are written only
\* by a verified init_batch or add_order callback of that batch, both in that
\* step and both from its output; every other step leaves them unchanged.
C7_StateWrittenByCallbackOnly ==
    [][\A k \in DOMAIN batches :
          (\/ batches'[k].encrypted_state # batches[k].encrypted_state
           \/ batches'[k].state_nonce # batches[k].state_nonce)
              => /\ last'.op \in {"init_batch_callback", "add_order_callback"}
                 /\ last'.err = "Ok"
                 /\ last'.key = k
                 /\ batches'[k].encrypted_state = last'.comp.output.ciphertexts
                 /\ batches'[k].state_nonce = last'.comp.output.nonce]_vars

\* a verified add_order callback has replaced ciphertext and nonce
C7_Witness ==
    /\ last.op = "add_order_callback"
    /\ last.err = "Ok"
    /\ batches[last.key].encrypted_state = last.comp.output.ciphertexts
    /\ batches[last.key].state_nonce # last.comp.args.state_nonce

\* C8 as stated: add_order fails with BatchNotOpen when the status is not
\* Open and with BatchFull when order_count >= 32, with no effect.
C8_RejectedByStatusOrCapacity ==
    [][last'.op = "add_order"
          => LET batch == batches[last'.key] IN
             /\ batch.status # "Open"
                    => /\ last'.err = "BatchNotOpen"
                       /\ UNCHANGED <<batches, orders, pending>>
             /\ (batch.status = "Open" /\ batch.order_count >= MAX_ORDERS)
                    => /\ last'.err = "BatchFull"
                       /\ UNCHANGED <<batches, orders, pending>>]_vars

\* C8 amended: when the status is not Open or order_count >= 32, add_order
\* fails with no effect (no OrderCommitment, no computation, batch unchanged);
\* the error is BatchNotOpen when the status is not Open, else BatchFull,
\* unless an OrderCommitment already exists at index order_count, in which
\* case initialising the order account fails before the handler runs.
C8_RejectedInOrder ==
    [][last'.op = "add_order"
          => LET batch == batches[last'.key] IN
             (batch.status # "Open" \/ batch.order_count >= MAX_ORDERS)
                 => /\ UNCHANGED <<batches, orders, pending>>
                    /\ last'.err =
                         IF <<last'.key, batch.order_count>> \in DOMAIN orders
                         THEN "AccountAlreadyInUse"
                         ELSE IF batch.status # "Open" THEN "BatchNotOpen"
                         ELSE "BatchFull"]_vars

\* an add_order was rejected with BatchFull
C8_Witness ==
    /\ last.op = "add_order"
    /\ last.err = "BatchFull"
    /\ batches[last.key].order_count = MAX_ORDERS
    /\ Cardinality(OrdersOf(last.key)) = MAX_ORDERS

\* C9 as stated: add_order against a batch with order_count 32 fails with
\* BatchFull whatever the status.
C9_FullWhateverStatus ==
    (last.op = "add_order" /\ batches[last.key].order_count = MAX_ORDERS)
        => last.err = "BatchFull"

\* C9 amended: add_order against a batch with order_count 32 always fails:
\* with BatchFull when the batch is Open, with BatchNotOpen otherwise.
C9_FullWhenOpen ==
    (last.op = "add_order" /\ batches[last.key].order_count = MAX_ORDERS)
        => last.err = IF batches[last.key].status = "Open" THEN "BatchFull"
                      ELSE "BatchNotOpen"

\* add_order was rejected on a full batch after it was closed
C9_Witness ==
    /\ last.op = "add_order"
    /\ batches[last.key].order_count = MAX_ORDERS
    /\ batches[last.key].status = "Closed"
    /\ last.err = "BatchNotOpen"

\* C10: close_batch by the authority fails with EmptyBatch on an Open batch
\* without orders, closes an Open batch with orders, fails with BatchNotOpen
\* otherwise; it dispatches nothing and changes no field but the status.
C10_CloseBatch ==
    [][(last'.op = "close_batch" /\ last'.signer = batches[last'.key].authority)
          => LET before == batches[last'.key]
                 after  == batches'[last'.key]
             IN  /\ UNCHANGED <<orders, pending>>
                 /\ (before.status = "Open" /\ before.order_count = 0)
                        => (last'.err = "EmptyBatch" /\ after = before)
                 /\ (before.status = "Open" /\ before.order_count >= 1)
                        => /\ last'.err = "Ok"
                           /\ after = [before EXCEPT !.status = "Closed"]
                 /\ before.status # "Open"
                        => (last'.err = "BatchNotOpen" /\ after = before)]_vars

\* the authority closed a batch that holds an order
C10_Witness ==
    /\ last.op = "close_batch"
    /\ last.err = "Ok"
    /\ batches[last.key].status = "Closed"
    /\ batches[last.key].order_count >= 1

\* C11: execute_batch by the authority dispatches one execute computation
\* when the status is Closed; for any other status it fails with
\* BatchNotClosed, dispatches nothing and leaves the batch unchanged.  No step
\* queues an execute computation for a batch that is not Closed, a batch is
\* created Open and no step takes a batch from Open to Executed.
C11_ExecuteOnlyWhenClosed ==
    [][/\ (last'.op = "execute_batch" /\ last'.signer = batches[last'.key].authority)
            => LET batch == batches[last'.key] IN
               /\ UNCHANGED <<batches, orders>>
               /\ batch.status = "Closed"
                      => /\ last'.err = "Ok"
                         /\ \E t \in TotalShares, p \in ExecutionPrices :
                               pending' = Queue(Computation("execute_batch", last'.key,
                                   execute_batch(batch, t, p).args))
               /\ batch.status # "Closed"
                      => (last'.err = "BatchNotClosed" /\ pending' = pending)
       /\ \A c \in BagToSet(pending') :
             (c.kind = "execute_batch" /\ CopiesIn(c, pending') > CopiesIn(c, pending)
                  /\ c.phase = "queued")
                 => batches[c.key].status = "Closed"
       /\ \A k \in DOMAIN batches' :
             /\ k \notin DOMAIN batches => batches'[k].status = "Open"
             /\ (k \in DOMAIN batches /\ batches'[k].status = "Executed")
                    => batches[k].status # "Open"]_vars

\* the authority's execute_batch was accepted on a Closed batch and its
\* computation is queued
C11_Witness ==
    /\ last.op = "execute_batch"
    /\ last.err = "Ok"
    /\ batches[last.key].status = "Closed"
    /\ \E c \in BagToSet(pending) : c.kind = "execute_batch" /\ c.phase = "queued"

\* the bytes of (the sum of cols[i] * 256^(i-1)) modulo 256^Len(cols): the
\* columns are added up without carries first and normalised once
RECURSIVE Normalise(_, _, _)
Normalise(cols, i, c) ==
    IF i > Len(cols) THEN <<>>
    ELSE <<(cols[i] + c) % 256>> \o Normalise(cols, i + 1, (cols[i] + c) \div 256)
ModBytes(cols) == Normalise(cols, 1, 0)

\* ((total_shares * 31 + execution_price) * 31 + total_amount) mod 2^64
RefDigest(total_shares, execution_price, total_amount) ==
    ModBytes([i \in 1..8 |-> total_shares[i] * (MIX * MIX) + execution_price[i] * MIX
                                + total_amount[i]])

\* the 32 bytes C12 describes
RefRoot(root_lo, root_hi, total_amount, total_shares, execution_price) ==
    LET digest == RefDigest(total_shares, execution_price, total_amount)
    IN  [i \in 1..32 |-> IF i <= 8 THEN XorNat(root_lo[i], digest[i])
                         ELSE IF i <= 16 THEN root_lo[i]
                         ELSE root_hi[i - 16]]

\* C12: the output of the execute computation is a function of the decrypted
\* state and of total_shares and execution_price alone (no draw of the
\* cluster changes it): merkle_root is root_lo || root_hi in little-endian
\* bytes with bytes 0..7 XORed with the bytes of
\* ((total_shares*31 + execution_price)*31 + total_amount) mod 2^64, and
\* total_usdc is total_amount.
C12_ExecuteOutput ==
    (last.op = "cluster_compute" /\ last.comp.kind = "execute_batch")
        => LET c     == last.comp
               batch == batches[last.key]
               state == Decrypt(batch.encrypted_state, c.args.state_nonce, GarbageState)
               again == [c EXCEPT !.phase = "queued", !.output = NoOutput, !.stale = FALSE]
           IN  /\ c.output.merkle_root
                    = RefRoot(state.commitment_root, state.commitment_root_hi,
                              state.total_amount, c.args.total_shares,
                              c.args.execution_price)
               /\ c.output.total_usdc = state.total_amount
               /\ \A g \in Garbage, n \in Nonces :
                     CircuitOutput(again, batch.encrypted_state, g, n) = c.output

\* the cluster ran an execute computation whose digest wraps: total_shares is
\* u64::MAX and the batch holds orders
C12_Witness ==
    /\ last.op = "cluster_compute"
    /\ last.comp.kind = "execute_batch"
    /\ last.comp.args.total_shares = Max64
    /\ last.comp.args.execution_price = Max64
    /\ batches[last.key].encrypted_state.pt.total_amount = U64(350)
    /\ last.comp.output.merkle_root # ZeroRoot

\* C13: in every reachable state verify_allocation succeeds, and then sets
\* the status to Verified and nothing else, if and only if the status is
\* Executed, at least 4 public inputs are supplied, public_inputs[1] is the
\* stored merkle_root and the proof has at least 64 bytes; otherwise it
\* fails and the batch is unchanged.  A call by the authority stores what
\* the handler returns and touches nothing else.
C13_VerifyAllocation ==
    /\ [](\A k \in DOMAIN batches, l \in {MIN_PROOF_LEN - 1, MIN_PROOF_LEN} :
             \A pi \in PublicInputs(k) :
                LET batch == batches[k]
                    r     == verify_allocation(batch, l, pi)
                    ok    == /\ batch.status = "Executed"
                             /\ Len(pi) >= 4
                             /\ pi[2] = batch.merkle_root
                             /\ l >= 64
                IN  /\ (r.err = "Ok") <=> ok
                    /\ ok => r.batch = [batch EXCEPT !.status = "Verified"]
                    /\ ~ok => r.batch = batch)
    /\ [][(last'.op = "verify_allocation" /\ last'.signer = batches[last'.key].authority)
             => LET batch == batches[last'.key] IN
                /\ \E l \in {MIN_PROOF_LEN - 1, MIN_PROOF_LEN} :
                      \E pi \in PublicInputs(last'.key) :
                         LET r == verify_allocation(batch, l, pi) IN
                         /\ last'.err = r.err
                         /\ batches' = [batches EXCEPT ![last'.key] = r.batch]
                /\ last'.err = "Ok" => batch.status = "Executed"
                /\ last'.err # "Ok" => batches' = batches
                /\ UNCHANGED <<orders, pending>>]_vars

\* the authority's verify_allocation was accepted on an executed batch
C13_Witness ==
    /\ last.op = "verify_allocation"
    /\ last.err = "Ok"
    /\ last.signer = batches[last.key].authority
    /\ batches[last.key].status = "Verified"
    /\ batches[last.key].merkle_root # ZeroRoot

AuthorityOps == {"close_batch", "execute_batch", "verify_allocation"}

\* C14: close_batch, execute_batch and verify_allocation by a signer other
\* than the batch's authority fail with Unauthorized in every status, change
\* nothing and dispatch nothing; add_order never fails with Unauthorized and
\* is accepted from whoever signs it when the batch is Open, below 32 orders
\* and the order account is free.
C14_AuthorityOnly ==
    [][/\ (last'.op \in AuthorityOps /\ last'.signer # batches[last'.key].authority)
            => /\ last'.err = "Unauthorized"
               /\ UNCHANGED <<batches, orders, pending>>
       /\ last'.op = "add_order"
            => LET batch == batches[last'.key] IN
               /\ last'.err # "Unauthorized"
               /\ (/\ batch.status = "Open"
                   /\ batch.order_count < 32
                   /\ <<last'.key, batch.order_count>> \notin DOMAIN orders)
                      => /\ last'.err = "Ok"
                         /\ orders'[<<last'.key, batch.order_count>>].user = last'.signer]_vars

\* a signer other than the authority tried to execute a Closed batch whose
\* order the authority itself had submitted
C14_Witness ==
    /\ last.op = "execute_batch"
    /\ last.err = "Unauthorized"
    /\ last.signer # batches[last.key].authority
    /\ batches[last.key].status = "Closed"
    /\ orders[<<last.key, 0>>].user = batches[last.key].authority

\* C15: while a batch is Open or Closed its total_usdc is 0 and its
\* merkle_root is all zero; a step that changes either is a verified
\* execute_batch callback of that batch, which writes both from its output
\* and leaves the status Executed.
C15_ResultsOnlyAfterExecution ==
    /\ [](\A k \in DOMAIN batches :
             batches[k].status \in {"Open", "Closed"}
                 => /\ batches[k].total_usdc = U64(0)
                    /\ batches[k].merkle_root = ZeroRoot)
    /\ [][\A k \in DOMAIN batches :
             (\/ batches'[k].total_usdc # batches[k].total_usdc
              \/ batches'[k].merkle_root # batches[k].merkle_root)
                 => /\ last'.op = "execute_batch_callback"
                    /\ last'.err = "Ok"
                    /\ last'.key = k
                    /\ batches'[k].status = "Executed"
                    /\ batches'[k].total_usdc = last'.comp.output.total_usdc
                    /\ batches'[k].merkle_root = last'.comp.output.merkle_root]_vars

\* a verified execute callback has just written a total and a root
C15_Witness ==
    /\ last.op = "execute_batch_callback"
    /\ last.err = "Ok"
    /\ batches[last.key].status = "Executed"
    /\ batches[last.key].total_usdc # U64(0)
    /\ batches[last.key].merkle_root # ZeroRoot

\* the amount an OrderCommitment of a serialized run commits to
AmountOf(order) == SubSeq(order.commitment_hash, 1, 8)

\* the sum of byte i of the amounts of the first n orders of a batch
RECURSIVE ColumnSum(_, _, _)
ColumnSum(key, n, i) ==
    IF n = 0 THEN 0
    ELSE AmountOf(orders[<<key, n - 1>>])[i] + ColumnSum(key, n - 1, i)

\* (a_1 + ... + a_n) mod 2^64 over the first n orders of a batch
SumOfAmounts(key, n) == ModBytes([i \in 1..8 |-> ColumnSum(key, n, i)])

\* the amounts of the orders of a batch, by index
AmountsOf(key, n) == [i \in 1..n |-> AmountOf(orders[<<key, i - 1>>])]

\* C16: in a serialized run create_batch, N add_order calls (1 <= N),
\* close_batch, execute_batch, no computation faults on overflow and the
\* total_usdc the execute callback writes is (a_1 + ... + a_N) mod 2^64; for
\* the amounts 100, 200, 50 it is 350.
C16_TotalIsSum ==
    \A k \in DOMAIN batches :
        batches[k].status \in {"Executed", "Verified"}
            => LET n == batches[k].order_count IN
               /\ n >= 1
               /\ OrdersOf(k) = {<<k, i>> : i \in 0..(n - 1)}
               /\ batches[k].total_usdc = SumOfAmounts(k, n)
               /\ AmountsOf(k, n) = <<U64(100), U64(200), U64(50)>>
                      => batches[k].total_usdc = U64(350)

\* C17: after an add_order callback failed with AbortedComputation on an Open
\* batch with order_count < 32, a new add_order against the batch is
\* accepted: its order account is free and the handler's checks pass.
C17_RetryAfterAbort ==
    (/\ last.op = "add_order_callback"
     /\ last.err = "AbortedComputation"
     /\ batches[last.key].status = "Open"
     /\ batches[last.key].order_count < 32)
        => \E u \in Users, a \in Amounts, w \in Wallets, h \in CommitmentHashes :
              /\ <<last.key, batches[last.key].order_count>> \notin DOMAIN orders
              /\ add_order(batches[last.key], u, a, w, h).err = "Ok"

\* C18: once a batch has left Open (close_batch succeeded) its order_count
\* never changes and no OrderCommitment is created for it.
C18_ClosedIsFrozen ==
    [][\A k \in DOMAIN batches :
          batches[k].status # "Open"
              => /\ batches'[k].order_count = batches[k].order_count
                 /\ {o \in DOMAIN orders' : o[1] = k} = OrdersOf(k)]_vars

\* C19: create_batch fails and changes nothing when a batch with the same
\* (market_id, authority) exists, whatever the side; otherwise (the market_id
\* may be in use under another authority) it creates the batch at that key,
\* Open, with order_count 0, total_usdc 0 and a zero merkle_root, and
\* dispatches one init computation.
C19_CreateBatch ==
    [][last'.op = "create_batch"
          => LET key == last'.key IN
             /\ key = <<key[1], last'.signer>>
             /\ key \in DOMAIN batches
                    => /\ last'.err # "Ok"
                       /\ UNCHANGED <<batches, orders, pending>>
                       /\ \A s \in TwoSides :
                             CreateBatch(last'.signer, key[1], s, 0, 1)
             /\ key \notin DOMAIN batches
                    => /\ last'.err = "Ok"
                       /\ DOMAIN batches' = DOMAIN batches \cup {key}
                       /\ \A k \in DOMAIN batches : batches'[k] = batches[k]
                       /\ batches'[key].authority = last'.signer
                       /\ batches'[key].market_id = key[1]
                       /\ batches'[key].side \in TwoSides
                       /\ batches'[key].status = "Open"
                       /\ batches'[key].order_count = 0
                       /\ batches'[key].total_usdc = U64(0)
                       /\ batches'[key].merkle_root = ZeroRoot
                       /\ \E c \in BagToSet(pending') :
                             /\ c.kind = "init_batch" /\ c.key = key
                             /\ c.phase = "queued"
                             /\ pending' = Queue(c)
                       /\ UNCHANGED orders]_vars

\* two authorities hold a batch for the same market, and a further
\* create_batch by one of them was rejected
C19_Witness ==
    /\ last.op = "create_batch"
    /\ last.err = "AccountAlreadyInUse"
    /\ {<<"M1", "authority">>, <<"M1", "other">>} \subseteq DOMAIN batches
    /\ batches[<<"M1", "authority">>].side # batches[<<"M1", "other">>].side

\* C20: initialize_registry fails if and only if a registry exists for the
\* same (authority, market_id) pair; otherwise it creates a registry of that
\* authority and market with proof_count 0.
C20_RegistryPerAuthority ==
    [][last'.op = "initialize_registry"
          => LET market_id == last'.key[1]
                 authority == last'.signer
                 exists    == \E m \in DOMAIN registries :
                                 /\ registries[m].market_id = market_id
                                 /\ registries[m].authority = authority
             IN  /\ (last'.err # "Ok") <=> exists
                 /\ last'.err = "Ok"
                        => \E m \in DOMAIN registries' \ DOMAIN registries :
                              registries'[m] = [ authority   |-> authority,
                                                 market_id   |-> market_id,
                                                 proof_count |-> 0 ]]_vars

\* C21: verify_proof applies its changes if and only if the handler runs
\* (proof_id has no ProofRecord yet) and the verification function returns
\* true: then exactly the ProofRecord of proof_id is created, with verified
\* = true, and the proof_count of the registry passed grows by exactly 1
\* while every other registry and record stays as it was. When the
\* verification function returns false the call fails with InvalidProof, and
\* when proof_id is already used it fails; a failed call creates no
\* ProofRecord and leaves every proof_count unchanged.
C21_VerifyProof ==
    [][\A v \in ZkSigners, m \in ZkMarkets, p \in ProofIds, q \in QueryCommitments,
          r \in ResponseCommitments, root \in ProofRoots, t \in Timestamps,
          l \in ProofLens :
          VerifyProof(v, m, p, q, r, root, t, l) =>
              LET ver  == verify_ultrahonk_proof(q, r, root, l)
                  used == p \in DOMAIN proof_records
                  returns_true  == ver.err = "Ok" /\ ver.valid
                  returns_false == ver.err = "Ok" /\ ~ver.valid
              IN  /\ (returns_true /\ ~used) =>
                        /\ last'.err = "Ok"
                        /\ DOMAIN proof_records' = DOMAIN proof_records \cup {p}
                        /\ proof_records'[p].verified = TRUE
                        /\ \A p2 \in DOMAIN proof_records :
                               proof_records'[p2] = proof_records[p2]
                        /\ DOMAIN registries' = DOMAIN registries
                        /\ \A m2 \in DOMAIN registries :
                               registries'[m2] =
                                   [registries[m2] EXCEPT !.proof_count =
                                       IF m2 = m THEN @ + 1 ELSE @]
                  /\ ~(returns_true /\ ~used) =>
                        /\ last'.err # "Ok"
                        /\ UNCHANGED <<registries, proof_records>>
                  /\ (returns_false /\ ~used) => last'.err = "InvalidProof"
                  /\ used => last'.err = "AccountAlreadyInUse"]_vars

\* a second proof has been recorded in one registry
C21_Witness ==
    /\ last.op = "verify_proof"
    /\ last.err = "Ok"
    /\ DOMAIN proof_records = ProofIds
    /\ \E m \in DOMAIN registries : registries[m].proof_count = 2

\* proof i of the list verifies: the verification function returns true
Verifies(proof) ==
    LET v == verify_ultrahonk_proof(proof.query_commitment, proof.response_commitment,
                                    proof.merkle_root, proof.proof_len)
    IN  v.err = "Ok" /\ v.valid

EveryProofVerifies(proofs) == \A i \in 1..Len(proofs) : Verifies(proofs[i])

\* C22 as stated: a BatchRecord is created if and only if the list has
\* between 1 and 32 proofs and every proof in it verifies; no call creates a
\* ProofRecord or changes a registry.
C22_AllOrNothing ==
    [][\A a \in BatchSigners, b \in BatchIds, proofs \in ProofLists, root \in BatchRoots :
          (/\ last'.op = "batch_verify_proofs"
           /\ last'.key = <<b, a>>
           /\ BatchVerifyProofs(a, b, proofs, root)) =>
              /\ (batch_records' # batch_records)
                     <=> /\ Len(proofs) \in 1..ZK_MAX_BATCH
                         /\ EveryProofVerifies(proofs)
              /\ UNCHANGED <<registries, proof_records>>]_vars

\* C22, amended: a BatchRecord is created if and only if batch_id has no
\* BatchRecord yet, the list has between 1 and 32 proofs and every proof in
\* it verifies; then it is the record of batch_id alone, with verified =
\* true and the number of proofs. Whether the call succeeds or fails, no
\* ProofRecord is created and no registry changes.
C22_AllOrNothingOnce ==
    [][\A a \in BatchSigners, b \in BatchIds, proofs \in ProofLists, root \in BatchRoots :
          (/\ last'.op = "batch_verify_proofs"
           /\ last'.key = <<b, a>>
           /\ BatchVerifyProofs(a, b, proofs, root)) =>
              LET created == batch_records' # batch_records
              IN  /\ created <=> /\ b \notin DOMAIN batch_records
                                 /\ Len(proofs) \in 1..ZK_MAX_BATCH
                                 /\ EveryProofVerifies(proofs)
                  /\ created <=> last'.err = "Ok"
                  /\ created =>
                        /\ DOMAIN batch_records' = DOMAIN batch_records \cup {b}
                        /\ \A b2 \in DOMAIN batch_records :
                               batch_records'[b2] = batch_records[b2]
                        /\ batch_records'[b].verified = TRUE
                        /\ batch_records'[b].proof_count = Len(proofs)
                  /\ UNCHANGED <<registries, proof_records>>]_vars

\* a batch has been recorded while a registry counts a proof and a
\* BatchRecord of the other id exists
C22_Witness ==
    /\ last.op = "batch_verify_proofs"
    /\ last.err = "Ok"
    /\ DOMAIN batch_records = BatchIds
    /\ \E m \in DOMAIN registries : registries[m].proof_count >= 1
    /\ proof_records # <<>>

\* C23 as stated: batch_verify_proofs fails with BatchTooLarge when more
\* than 32 proofs are supplied, with EmptyBatch when the list is empty, and
\* with BatchVerificationFailed when the list has 1 to 32 proofs and one of
\* them does not verify, a proof with fewer than 64 bytes of proof_data
\* included.
C23_BatchErrors ==
    [][\A a \in BatchSigners, b \in BatchIds, proofs \in ProofLists, root \in BatchRoots :
          (/\ last'.op = "batch_verify_proofs"
           /\ last'.key = <<b, a>>
           /\ BatchVerifyProofs(a, b, proofs, root)) =>
              /\ Len(proofs) > ZK_MAX_BATCH => last'.err = "BatchTooLarge"
              /\ Len(proofs) = 0 => last'.err = "EmptyBatch"
              /\ (Len(proofs) \in 1..ZK_MAX_BATCH /\ ~EveryProofVerifies(proofs))
                     => last'.err = "BatchVerificationFailed"]_vars

\* C24: every ProofRecord that exists has verified = true, and no step
\* removes or changes an existing ProofRecord; check_verification returns
\* the flag of an existing record, fails for a proof_id without a record,
\* and changes no account.
C24_RecordsVerifiedAndFixed ==
    /\ [](\A p \in DOMAIN proof_records : proof_records[p].verified = TRUE)
    /\ [][\A p \in DOMAIN proof_records :
              /\ p \in DOMAIN proof_records'
              /\ proof_records'[p] = proof_records[p]]_vars
    /\ [][last'.op = "check_verification" =>
              LET p == last'.key[1]
              IN  /\ UNCHANGED <<registries, proof_records, batch_records, trading>>
                  /\ IF p \in DOMAIN proof_records
                     THEN /\ last'.err = "Ok"
                          /\ return_data' = Return(proof_records[p].verified)
                     ELSE /\ last'.err # "Ok"
                          /\ return_data' = NoReturn]_vars

\* check_verification has returned the flag of a record made by
\* verify_proof, in a state that also holds a BatchRecord
C24_Witness ==
    /\ last.op = "check_verification"
    /\ last.err = "Ok"
    /\ return_data = Return(TRUE)
    /\ last.key[1] \in DOMAIN proof_records
    /\ batch_records # <<>>

\* C25: in every reachable state, under any interleaving of add_order
\* submissions, cluster steps and callbacks, a batch's order_count is at
\* most 32 and at most 32 OrderCommitments exist for the batch.
C25_AtMostMaxOrders ==
    \A k \in DOMAIN batches :
        /\ batches[k].order_count <= MAX_ORDERS
        /\ Cardinality(OrdersOf(k)) <= MAX_ORDERS

\* the batch is full, with 32 OrderCommitments, and a further add_order
\* has been refused
C25_Witness ==
    /\ last.op = "add_order"
    /\ last.err = "BatchFull"
    /\ batches[last.key].order_count = MAX_ORDERS
    /\ Cardinality(OrdersOf(last.key)) = MAX_ORDERS

\* the commitment root after the order (amount, wallet) is added to `state`
RootAfter(state, amount, wallet) ==
    LET next == circuits_add_order_state(state, amount, wallet.lo, wallet.hi)
    IN  <<next.commitment_root, next.commitment_root_hi>>

RootAfterTwo(state, a, b, wallet) ==
    RootAfter(circuits_add_order_state(state, a, wallet.lo, wallet.hi), b, wallet)

\* the prior states of the aggregator the fold is tried on
PriorStates ==
    {InitialBatchState, GarbageState}
    \cup {batches[k].encrypted_state.pt : k \in DOMAIN batches}

\* the root when the first n orders of a batch are folded last to first
RECURSIVE RootLastToFirst(_, _, _)
RootLastToFirst(key, i, n) ==
    IF i = n THEN [lo |-> U128(0), hi |-> U128(0)]
    ELSE LET rest   == RootLastToFirst(key, i + 1, n)
             wallet == CHOOSE w \in Wallets : TRUE
         IN  update_merkle_root(rest.lo, rest.hi,
                 compute_order_hash(AmountOf(orders[<<key, i>>]), wallet.lo, wallet.hi))

Slots(state) ==
    <<state.order_hash_1, state.order_hash_2, state.order_hash_3, state.order_hash_4>>

\* `next` is `prev` with the digest d of order number k = next.order_count
\* stored in slot k when k is in 1..4 and in no slot otherwise, and folded
\* into the commitment root
SlotRule(prev, next, d) ==
    LET k == next.order_count IN
    /\ k = (prev.order_count + 1) % 256
    /\ \A i \in 1..4 : Slots(next)[i] = IF i = k THEN d ELSE Slots(prev)[i]
    /\ k >= 5 => Slots(next) = Slots(prev)
    /\ next.commitment_root = XorBytes(prev.commitment_root, d)
    /\ next.commitment_root_hi = WrappingAdd(prev.commitment_root_hi, d)

\* C27: when the cluster runs add_order on a batch's state, the digest of
\* the order, number k = order_count after the increment, is stored in slot
\* order_hash_k for k in 1..4 with the other three slots unchanged; for
\* k >= 5 all four slots are unchanged and the digest goes into the folded
\* root only. The same holds of an order of any other amount added to the
\* state the cluster decrypted.
C27_SlotsByCount ==
    (/\ last.op = "cluster_compute"
     /\ last.comp.kind = "add_order"
     /\ last.comp.phase = "executed") =>
        LET c    == last.comp
            prev == Decrypt(batches[c.key].encrypted_state, c.args.state_nonce,
                            GarbageState)
        IN  /\ SlotRule(prev, c.output.ciphertexts.pt,
                        compute_order_hash(c.args.amount, c.args.wallet_lo,
                                           c.args.wallet_hi))
            /\ \A o \in RunOrders, w \in Wallets :
                   SlotRule(prev,
                            circuits_add_order_state(prev, o.amount, w.lo, w.hi),
                            compute_order_hash(o.amount, w.lo, w.hi))

\* the cluster has run the fifth order of a batch whose four slots are taken
C27_Witness ==
    /\ last.op = "cluster_compute"
    /\ last.comp.kind = "add_order"
    /\ last.comp.phase = "executed"
    /\ last.comp.output.ciphertexts.pt.order_count = 5
    /\ \A i \in 1..4 : Slots(last.comp.output.ciphertexts.pt)[i] # U128(0)

\* C28: for the authority's verify_allocation on any reachable batch, the
\* error reported is that of the first check that fails: BatchNotExecuted
\* when the status is not Executed, else InvalidProof with fewer than 4
\* public inputs, else MerkleRootMismatch when public_inputs[1] is not the
\* stored root, else InvalidProofData when the proof has fewer than 64
\* bytes; a short proof with a mismatching root reports MerkleRootMismatch.
\* A refused call leaves the batch as it was, and its error is one the
\* handler gives on that batch.
C28_FirstFailingCheck ==
    /\ \A k \in DOMAIN batches, l \in {MIN_PROOF_LEN - 1, MIN_PROOF_LEN} :
          \A pi \in PublicInputs(k) :
             LET batch    == batches[k]
                 err      == verify_allocation(batch, l, pi).err
                 executed == batch.status = "Executed"
                 enough   == Len(pi) >= 4
                 bound    == pi[2] = batch.merkle_root
                 long     == l >= 64
             IN  /\ ~executed => err = "BatchNotExecuted"
                 /\ (executed /\ ~enough) => err = "InvalidProof"
                 /\ (executed /\ enough /\ ~bound) => err = "MerkleRootMismatch"
                 /\ (executed /\ enough /\ bound /\ ~long) => err = "InvalidProofData"
                 /\ (executed /\ enough /\ ~bound /\ ~long) => err # "InvalidProofData"
    /\ (/\ last.op = "verify_allocation"
        /\ last.signer = batches[last.key].authority
        /\ last.err # "Ok")
           => \E l \in {MIN_PROOF_LEN - 1, MIN_PROOF_LEN} :
                 \E pi \in PublicInputs(last.key) :
                    verify_allocation(batches[last.key], l, pi).err = last.err

\* the authority's call on an executed batch was refused for the root
C28_Witness ==
    /\ last.op = "verify_allocation"
    /\ last.signer = batches[last.key].authority
    /\ last.err = "MerkleRootMismatch"
    /\ batches[last.key].status = "Executed"
    /\ batches[last.key].merkle_root # ZeroRoot

\* the add_order computations outstanding for a batch
PendingAddOrders(k) ==
    {c \in BagToSet(pending) : c.kind = "add_order" /\ c.key = k}

\* C29: in every reachable state at most one add_order computation is
\* outstanding per batch and the number of OrderCommitments of a batch is
\* order_count or order_count + 1, with indices 0..order_count-1 or
\* 0..order_count; while an add_order computation is outstanding the order
\* account at the batch's order_count exists, and an add_order submitted
\* then fails and changes nothing.
C29_OnePendingAddOrder ==
    /\ [](\A k \in DOMAIN batches :
             LET n == batches[k].order_count IN
             /\ \A c \in PendingAddOrders(k) : CopiesIn(c, pending) = 1
             /\ Cardinality(PendingAddOrders(k)) <= 1
             /\ Cardinality(OrdersOf(k)) \in {n, n + 1}
             /\ OrdersOf(k) \in { {<<k, i>> : i \in 0..(n - 1)},
                                  {<<k, i>> : i \in 0..n} }
             /\ PendingAddOrders(k) # {} => <<k, n>> \in DOMAIN orders)
    /\ [][(last'.op = "add_order" /\ PendingAddOrders(last'.key) # {})
             => /\ last'.err # "Ok"
                /\ UNCHANGED <<batches, orders, pending>>]_vars

\* a second add_order has been refused while the first one's computation
\* is outstanding
C29_Witness ==
    /\ last.op = "add_order"
    /\ last.err = "AccountAlreadyInUse"
    /\ Cardinality(PendingAddOrders(last.key)) = 1
    /\ batches[last.key].status = "Open"
    /\ Cardinality(OrdersOf(last.key)) = batches[last.key].order_count + 1

\* C30: once a batch's status is Executed (or Verified after it), no step
\* changes its merkle_root or its total_usdc, whatever execute_batch
\* computations were submitted while it was Closed.
C30_ExecutedRootFixed ==
    [][\A k \in DOMAIN batches :
          batches[k].status \in {"Executed", "Verified"}
              => /\ batches'[k].merkle_root = batches[k].merkle_root
                 /\ batches'[k].total_usdc = batches[k].total_usdc]_vars

\* C31: in every reachable state in which a batch's status is Executed or
\* Verified, the OrderCommitments 0..order_count-1 exist and total_usdc is
\* the sum modulo 2^64 of the amounts of those order_count orders, also
\* when an add_order computation was outstanding while close_batch and
\* execute_batch were called.
C31_TotalOfCountedOrders ==
    \A k \in DOMAIN batches :
        batches[k].status \in {"Executed", "Verified"}
            => LET n == batches[k].order_count IN
               /\ {<<k, i>> : i \in 0..(n - 1)} \subseteq OrdersOf(k)
               /\ batches[k].total_usdc = SumOfAmounts(k, n)

====
